---- MODULE Spec2Model ----
(***************************************************************************)
(* ProfileSwitchingHotkey (src/src/profile_switching_hotkey.py): the       *)
(* keyboard hook callback, the event queue, the worker thread that         *)
(* recognises the ctrl+shift chord and the profile selector keys, the      *)
(* persisted profile file, and the start/stop lifecycle.                   *)
(***************************************************************************)
EXTENDS Integers, Sequences, FiniteSets, TLC

\* Bound of the model: largest number of events let into queue.Queue(),
\* which the code creates without a maxsize.
MaxQueue == 2

\* Bound of the model: largest number of events let into the queue in
\* SpecConc, where two threads take events from it.
MaxBacklog == 1

\* queue.Queue(): the maxsize the queue is created with; Python takes a
\* maxsize of 0 or less to mean that the queue has no limit.
maxsize == 0

\* keyboard.KEY_DOWN and keyboard.KEY_UP
KEY_DOWN == "down"
KEY_UP == "up"

Absent == "absent"
NoProfile == -1
NoThread == 0

\* The key names the hook is offered: the two modifiers and the shifted
\* number symbols of profiles 1, 2 and 3, one of which is the symbol of an
\* unsupported profile under each choice of supported_profiles below.
KeyNames == {"ctrl", "shift", "!", "@", "#"}
EventTypes == {KEY_DOWN, KEY_UP}
KeyEvents == [name : KeyNames, type : EventTypes]

\* The supported_profiles arguments the constructor is given.
SupportedChoices == {{}, {1, 2}, {2, 3}}

\* The contents of ./.profile.txt before construction (a sequence of
\* characters, or Absent when the file does not exist).
FileChoices == {Absent, <<"2">>, <<"2", "\n">>, <<"9">>, <<"x">>}

\* The threads that can run _process_events at one time: the thread of the
\* latest start(), and one of an earlier start() that outlived its join.
WorkerIds == {1, 2}

\* No event: the value of a worker's event when it holds none.
NoEvent == [name |-> "none", type |-> "none"]

-----------------------------------------------------------------------------
(* str(int) and int(str.strip()) as Python computes them.                  *)

Digits == <<"0", "1", "2", "3", "4", "5", "6", "7", "8", "9">>
IsDigit(c) == \E i \in 1..10 : Digits[i] = c
DigitVal(c) == (CHOOSE i \in 1..10 : Digits[i] = c) - 1
Whitespace == {" ", "\n", "\t", "\r"}

RECURSIVE DecimalDigits(_)
DecimalDigits(n) ==
    IF n < 10 THEN <<Digits[n + 1]>>
    ELSE Append(DecimalDigits(n \div 10), Digits[(n % 10) + 1])

\* str(n)
Str(n) == IF n < 0 THEN <<"-">> \o DecimalDigits(0 - n) ELSE DecimalDigits(n)

RECURSIVE LStrip(_)
LStrip(s) == IF s # <<>> /\ Head(s) \in Whitespace THEN LStrip(Tail(s)) ELSE s

RECURSIVE RStrip(_)
RStrip(s) ==
    IF s # <<>> /\ s[Len(s)] \in Whitespace
    THEN RStrip(SubSeq(s, 1, Len(s) - 1))
    ELSE s

\* str.strip()
Strip(s) == RStrip(LStrip(s))

RECURSIVE DecimalValue(_)
DecimalValue(s) ==
    IF s = <<>> THEN 0
    ELSE 10 * DecimalValue(SubSeq(s, 1, Len(s) - 1)) + DigitVal(s[Len(s)])

AllDigits(s) == s # <<>> /\ \A i \in 1..Len(s) : IsDigit(s[i])

\* int(text): [ok |-> whether it parses, value |-> the integer]
ParseInt(text) ==
    LET t == Strip(text)
        signed == t # <<>> /\ Head(t) \in {"-", "+"}
        body == IF signed THEN Tail(t) ELSE t
    IN  IF AllDigits(body)
        THEN [ok |-> TRUE,
              value |-> IF signed /\ Head(t) = "-"
                        THEN 0 - DecimalValue(body) ELSE DecimalValue(body)]
        ELSE [ok |-> FALSE, value |-> 0]

-----------------------------------------------------------------------------
VARIABLES
    supported_profiles, \* self.supported_profiles
    profile_file,       \* content of ./.profile.txt, or Absent
    writable,           \* whether open(profile_file, 'w') succeeds (fixed per run)
    engine,             \* "new", "ready", or the error construction raised
    current_profile,    \* self.current_profile
    is_combo_active,    \* self.is_combo_active, the flag the hook reads
    hook_active,        \* self.hook_active
    running,            \* self.running
    os_hooks,           \* number of callbacks keyboard.hook has installed
    event_queue,        \* self.event_queue
    event_thread,       \* self.event_thread: a worker id, or NoThread
    worker,             \* the threads running _process_events
    stopping,           \* the caller of stop() is inside event_thread.join
    observed,           \* the hook call of the step just taken, with its result
    calls,              \* the _save_profile and callback calls the step just
                        \* taken made, in order
    last_known,         \* the profile of the latest on_start or
                        \* on_profile_change call, before any the constructed one
    handled,            \* what the step just taken handled (the construction,
                        \* or a queued event), and the state it started from
    stopping2,          \* a second caller of stop(), on another thread, is
                        \* inside event_thread.join
    pending,            \* the number of events that were in the queue when
                        \* stop() was called and have not been taken from it
    ghm,                \* the GlobalHotkeyManager object
    htr                 \* the HoldToRecordHotkeyManager object

vars == <<supported_profiles, profile_file, writable, engine, current_profile,
          is_combo_active, hook_active, running, os_hooks, event_queue,
          event_thread, worker, stopping, observed, calls, last_known,
          handled, stopping2, pending, ghm,
                   htr>>

-----------------------------------------------------------------------------
(* __init__, _load_profile, _save_profile                                  *)

\* self.key_to_profile
key_to_profile ==
    [k \in {"!", "@", "#", "$", "%", "^", "&", "*", "(", ")"} |->
        CASE k = "!" -> 1 [] k = "@" -> 2 [] k = "#" -> 3 [] k = "$" -> 4
          [] k = "%" -> 5 [] k = "^" -> 6 [] k = "&" -> 7 [] k = "*" -> 8
          [] k = "(" -> 9 [] k = ")" -> 0]

\* self.monitored_symbols
monitored_symbols ==
    {k \in DOMAIN key_to_profile : key_to_profile[k] \in supported_profiles}

Modifiers == {"ctrl", "shift"}

\* min(self.supported_profiles)
MinProfile(S) == CHOOSE x \in S : \A y \in S : x <= y

\* As load_profile with 0 for the value of a file that does not exist.
load_profile_DefaultZero(file) ==
    IF file = Absent THEN [ok |-> TRUE, value |-> 0] ELSE ParseInt(file)

\* As load_profile when a file that does not parse is taken for the default.
load_profile_Lenient(file) ==
    IF file = Absent \/ ~ParseInt(file).ok
    THEN [ok |-> TRUE, value |-> 1]
    ELSE ParseInt(file)

\* _load_profile: 1 when the file does not exist, else int(f.read().strip());
\* ok is FALSE when that raises.
load_profile(file) ==
    IF file = Absent THEN [ok |-> TRUE, value |-> 1] ELSE ParseInt(file)

\* _save_profile: the file after the call. A failed open() is logged and
\* leaves the file as it was.
save_profile(profile, file, can_write) ==
    IF can_write THEN Str(profile) ELSE file

\* As InitialProfile without the correction of an unsupported value.
InitialProfile_Unchecked(loaded, supported) == loaded

\* The profile __init__ settles on for a loaded value.
InitialProfile(loaded, supported) ==
    IF loaded \notin supported THEN MinProfile(supported) ELSE loaded

\* As InitSaves when the corrected profile is never saved.
InitSaves_Never(loaded, supported) == FALSE

\* Whether __init__ calls _save_profile for a loaded value.
InitSaves(loaded, supported) == loaded \notin supported

Call(cb, profile) == [cb |-> cb, profile |-> profile]

\* A worker: where it is in _process_events, its local_keys_pressed and
\* local_combo_active, the number of on_start calls it has made since it
\* last handled a modifier Up, the event it has taken from the queue and not
\* yet handled, and the number of events taken from the queue before that
\* one which are not handled yet.
\* inside is the call of a callback the thread is in, and stale tells
\* whether the event it holds was in the queue when stop() was called.
Outside == Call("none", NoProfile)
NewWorker == [pc |-> "loop", keys |-> {}, combo |-> FALSE, starts |-> 0,
              event |-> NoEvent, ticket |-> 0, inside |-> Outside,
              stale |-> FALSE]
DeadWorker == [pc |-> "none", keys |-> {}, combo |-> FALSE, starts |-> 0,
               event |-> NoEvent, ticket |-> 0, inside |-> Outside,
               stale |-> FALSE]
NoCall == <<>>
NoObservation == [name |-> "none", type |-> "none", suppress |-> FALSE]
NotHandled == [op |-> "none"]

\* The record of a step: what it handled and the values it started from.
\* raised tells whether the callback the step invoked raised an exception.
Handled(op, event, me) ==
    [op |-> op, event |-> event, keys |-> me.keys, combo |-> me.combo,
     profile |-> current_profile, file |-> profile_file, known |-> last_known,
     ticket |-> me.ticket, raised |-> FALSE, stale |-> FALSE]

\* GlobalHotkeyManager(on_hotkey_triggered) (global_hotkey_manager.py, lines
\* 16-35). combo_start_time is NoTime or Started, the value of time.time()
\* being used for the log only. The other fields are on record for the
\* properties: since the first of ctrl and shift went down, `both` tells
\* whether the two were down together, `dirty` whether another key went
\* down, and `cancelled` whether it did so while the two were down; `ended`
\* tells whether the step just taken handled the release of the last of
\* them, and `fired` is the number of calls of on_hotkey_triggered it made.
NoTime == "none"
Started == "started"
NewGhm ==
    [hook_active |-> FALSE, running |-> FALSE, event_queue |-> <<>>,
     ctrl_pressed |-> FALSE, shift_pressed |-> FALSE,
     other_key_pressed |-> FALSE, combo_start_time |-> NoTime,
     both |-> FALSE, dirty |-> FALSE, cancelled |-> FALSE,
     ended |-> FALSE, fired |-> 0]

\* No HoldToRecordHotkeyManager constructed yet. `emitted` is the signal the
\* step just taken emitted, `prev` the latest signal emitted before that
\* step, and `repeat` tells whether the step handled the Down of a key that
\* was in keys_pressed.
NoSignal == "none"
NoHtr ==
    [state |-> "new", keys |-> {}, keys_pressed |-> {}, is_pressed |-> FALSE,
     is_recording |-> FALSE, emitted |-> NoSignal, prev |-> NoSignal,
     repeat |-> FALSE]

Init ==
    /\ supported_profiles \in SupportedChoices
    /\ profile_file \in FileChoices
    /\ writable \in BOOLEAN
    /\ engine = "new"
    /\ current_profile = NoProfile
    /\ is_combo_active = FALSE
    /\ hook_active = FALSE
    /\ running = FALSE
    /\ os_hooks = 0
    /\ event_queue = <<>>
    /\ event_thread = NoThread
    /\ worker = [w \in WorkerIds |-> DeadWorker]
    /\ stopping = FALSE
    /\ observed = NoObservation
    /\ calls = NoCall
    /\ last_known = NoProfile
    /\ handled = NotHandled
    /\ stopping2 = FALSE
    /\ pending = 0
    /\ ghm = NewGhm
    /\ htr = NoHtr

\* As ConstructionError with the profile file loaded before the arguments
\* are validated.
ConstructionError_LoadFirst(supported, file) ==
    IF ~load_profile(file).ok THEN "load_error"
    ELSE IF supported = {} THEN "empty_profiles_error"
    ELSE "none"

\* The exception __init__ ends in: the ValueError of lines 16-17, raised
\* before anything else is done, or the exception _load_profile re-raises
\* (line 58) at line 32.
ConstructionError(supported, file) ==
    IF supported = {} THEN "empty_profiles_error"
    ELSE IF ~load_profile(file).ok THEN "load_error"
    ELSE "none"

\* ProfileSwitchingHotkey(supported_profiles, ...)
Construct ==
    /\ engine = "new"
    /\ observed' = NoObservation
    /\ handled' = Handled("construct", "none", DeadWorker)
    /\ UNCHANGED <<supported_profiles, writable, is_combo_active, hook_active,
                   running, os_hooks, event_queue, event_thread, worker,
                   stopping, stopping2, pending, ghm,
                   htr>>
    /\ LET error == ConstructionError(supported_profiles, profile_file)
           loaded == load_profile(profile_file)
       IN
       IF error # "none"
       THEN /\ engine' = error
            /\ calls' = NoCall
            /\ UNCHANGED <<current_profile, profile_file, last_known>>
       ELSE /\ engine' = "ready"
            /\ current_profile' =
                   InitialProfile(loaded.value, supported_profiles)
            /\ last_known' = current_profile'
            /\ IF InitSaves(loaded.value, supported_profiles)
               THEN /\ profile_file' = save_profile(current_profile',
                                                    profile_file, writable)
                    /\ calls' = <<Call("_save_profile", current_profile')>>
               ELSE /\ profile_file' = profile_file
                    /\ calls' = NoCall

-----------------------------------------------------------------------------
(* start, stop                                                             *)

\* The id the model gives the thread start() creates: the lowest one no live
\* thread has.
NewThread == CHOOSE w \in WorkerIds :
                 /\ worker[w].pc = "none"
                 /\ \A v \in WorkerIds : worker[v].pc = "none" => w <= v

\* The record of a start() that found the engine started.
StartedAgain == [op |-> "start_again"]

\* As Starts when start() does not test hook_active.
Starts_Always == TRUE

\* line 148: if not self.hook_active
Starts == ~hook_active

\* start() (lines 147-156); `noted` tells whether a call that finds the
\* engine started is put on record.
start_call(noted) ==
    /\ engine = "ready"
    /\ ~stopping
    /\ ~stopping2
    /\ UNCHANGED <<stopping2, pending, ghm,
                   htr>>
    /\ observed' = NoObservation
    /\ calls' = NoCall
    /\ handled' = IF noted /\ hook_active THEN StartedAgain ELSE NotHandled
    /\ UNCHANGED <<supported_profiles, profile_file, writable, engine,
                   current_profile, is_combo_active, event_queue, stopping,
                   last_known>>
    /\ IF Starts
       THEN /\ \E w \in WorkerIds : worker[w].pc = "none"
            /\ running' = TRUE
            /\ event_thread' = NewThread
            /\ worker' = [worker EXCEPT ![NewThread] = NewWorker]
            /\ os_hooks' = os_hooks + 1
            /\ hook_active' = TRUE
       ELSE UNCHANGED <<running, event_thread, worker, os_hooks, hook_active>>

start == start_call(FALSE)

\* start with a call on a started engine put on record
NotedStart == start_call(TRUE)

\* stop() up to the call of event_thread.join (lines 158-163); `counting`
\* tells whether the events then in the queue are counted in `pending`.
stop_call(counting) ==
    /\ engine = "ready"
    /\ ~stopping
    /\ UNCHANGED <<stopping2, ghm,
                   htr>>
    /\ observed' = NoObservation
    /\ calls' = NoCall
    /\ handled' = NotHandled
    /\ UNCHANGED <<supported_profiles, profile_file, writable, engine,
                   current_profile, is_combo_active, hook_active, os_hooks,
                   event_queue, event_thread, worker, last_known>>
    /\ IF hook_active
       THEN running' = FALSE /\ stopping' = TRUE
            /\ pending' = IF counting THEN Len(event_queue) ELSE pending
       ELSE UNCHANGED <<running, stopping, pending>>

stop_begin == stop_call(FALSE)

\* stop_begin with the events in the queue counted
CountedStop == stop_call(TRUE)

\* Of n counted events at the head of the queue, those that are in q.
StillPending(n, q) == IF n <= Len(q) THEN n ELSE Len(q)

\* As Drained when the events are left in the queue.
Drained_Kept(q) == q

\* lines 170-174: the queue after the loop of get_nowait
Drained(q) == <<>>

\* stop() after the join (lines 165-174): the hooks are removed and the
\* queue is emptied.
stop_rest ==
    /\ stopping
    /\ pending' = StillPending(pending, Drained(event_queue))
    /\ UNCHANGED <<stopping2, ghm,
                   htr>>
    /\ os_hooks' = 0
    /\ hook_active' = FALSE
    /\ event_queue' = Drained(event_queue)
    /\ stopping' = FALSE
    /\ observed' = NoObservation
    /\ calls' = NoCall
    /\ handled' = NotHandled
    /\ UNCHANGED <<supported_profiles, profile_file, writable, engine,
                   current_profile, is_combo_active, running, event_thread,
                   worker, last_known>>

\* stop() from the return of join, the thread having ended: a worker that
\* is not inside a callback ends within the 0.1 s of its get() timeout,
\* before the 1.0 s of the join.
stop_end ==
    /\ event_thread # NoThread => worker[event_thread].pc = "none"
    /\ stop_rest

\* As stop_timeout when the join has no timeout: stop() goes on only once
\* the thread has ended.
stop_timeout_Unbounded ==
    /\ event_thread # NoThread
    /\ worker[event_thread].pc = "none"
    /\ stop_rest

\* stop() from the return of join(timeout=1.0), the thread being still
\* inside a callback: stop() goes on all the same.
stop_timeout ==
    /\ event_thread # NoThread
    /\ worker[event_thread].pc = "callback"
    /\ stop_rest

\* A second thread calls stop() while the first caller is inside join: it
\* finds hook_active still set (line 159) and goes up to its own join.
stop2_begin ==
    /\ engine = "ready"
    /\ stopping
    /\ ~stopping2
    /\ hook_active
    /\ running' = FALSE
    /\ stopping2' = TRUE
    /\ observed' = NoObservation
    /\ calls' = NoCall
    /\ handled' = NotHandled
    /\ UNCHANGED <<supported_profiles, profile_file, writable, engine,
                   current_profile, is_combo_active, hook_active, os_hooks,
                   event_queue, event_thread, worker, stopping, last_known,
                   pending, ghm,
                   htr>>

\* The stop() of the second thread from the return of its join, the thread
\* having ended or the join having timed out (lines 165-174).
stop2_end ==
    /\ stopping2
    /\ event_thread # NoThread =>
           worker[event_thread].pc \in {"none", "callback"}
    /\ stopping2' = FALSE
    /\ os_hooks' = 0
    /\ hook_active' = FALSE
    /\ event_queue' = Drained(event_queue)
    /\ pending' = StillPending(pending, Drained(event_queue))
    /\ observed' = NoObservation
    /\ calls' = NoCall
    /\ handled' = NotHandled
    /\ UNCHANGED <<supported_profiles, profile_file, writable, engine,
                   current_profile, is_combo_active, running, event_thread,
                   worker, stopping, last_known, ghm,
                   htr>>

-----------------------------------------------------------------------------
(* _on_key_event                                                           *)

\* The keys _on_key_event queues.
monitored_keys == Modifiers \cup monitored_symbols

\* As Suppress without the test of the event type.
Suppress_AnyTransition(event, armed_flag) ==
    event.name \in monitored_symbols /\ armed_flag

\* The value _on_key_event returns: TRUE to suppress the key.
Suppress(event, armed_flag) ==
    /\ event.type = KEY_DOWN
    /\ event.name \in monitored_symbols
    /\ armed_flag

\* queue.Queue.put_nowait raises queue.Full when the queue has a limit and
\* holds that many items.
Full(q) == maxsize > 0 /\ Len(q) >= maxsize

\* As Queues when every key is queued.
Queues_AnyKey(event) == TRUE

\* line 71: the hook queues the events of the monitored keys
Queues(event) == event.name \in monitored_keys

\* As Enqueued when the event is put twice.
Enqueued_Twice(q, event) == Append(Append(q, event), event)

\* lines 74-78: the queue after put_nowait of the event
Enqueued(q, event) == Append(q, event)

\* As HookWaits when the hook call waits for the queue to be empty.
HookWaits_ForDrain == event_queue # <<>>

\* As HookWaits when the hook call waits for a worker to leave its callback.
HookWaits_ForCallback == \E w \in WorkerIds : worker[w].pc = "callback"

\* Whether the hook call has to wait for another thread: it takes no lock
\* and makes no blocking call (put_nowait, lines 70-89).
HookWaits == FALSE

\* The hook call for one key event (lines 67-89): the event is queued when
\* its key is monitored, unless put_nowait raises queue.Full, and `result`
\* is the value returned.
_on_key_event(event, result) ==
    /\ engine = "ready"
    /\ os_hooks > 0
    /\ ~HookWaits
    /\ UNCHANGED <<stopping2, pending, ghm,
                   htr>>
    /\ IF Queues(event) /\ ~Full(event_queue)
       THEN /\ Len(event_queue) < MaxQueue
            /\ event_queue' = Enqueued(event_queue, event)
       ELSE UNCHANGED event_queue
    /\ result = Suppress(event, is_combo_active)
    /\ calls' = NoCall
    /\ handled' = NotHandled
    /\ UNCHANGED <<supported_profiles, profile_file, writable, engine,
                   current_profile, is_combo_active, hook_active, running,
                   os_hooks, event_thread, worker, stopping, last_known>>

\* A key event reaches the hook.
KeyEvent ==
    \E event \in KeyEvents, result \in BOOLEAN :
        /\ _on_key_event(event, result)
        /\ observed' = NoObservation

\* A key event reaches the hook, and the call's result is recorded.
ObservedKeyEvent ==
    \E event \in KeyEvents, result \in BOOLEAN :
        /\ _on_key_event(event, result)
        /\ observed' = [name |-> event.name, type |-> event.type,
                        suppress |-> result]

-----------------------------------------------------------------------------
(* _process_events                                                         *)

\* line 103: a modifier goes down that is not yet in local_keys_pressed
NewModifierDown(event, keys) ==
    event.name \in Modifiers /\ event.name \notin keys

\* As ChordComplete with the operands of <= exchanged.
ChordComplete_Reversed(keys, combo) == keys \subseteq Modifiers /\ ~combo

\* line 107: both modifiers are pressed and the combo is not yet active
ChordComplete(keys, combo) == Modifiers \subseteq keys /\ ~combo

\* As SelectorWhileArmed without the test of local_combo_active.
SelectorWhileArmed_Unguarded(event, combo) ==
    event.name \in monitored_symbols

\* line 116: a selector symbol goes down while the combo is active
SelectorWhileArmed(event, combo) ==
    event.name \in monitored_symbols /\ combo

\* As SwitchesProfile with > for !=.
SwitchesProfile_OnlyUpward(profile_num, current) ==
    profile_num \in supported_profiles /\ profile_num > current

\* lines 118-119: the symbol's profile is supported and not the current one
SwitchesProfile(profile_num, current) ==
    profile_num \in supported_profiles /\ profile_num # current

\* As ProfileAfterSwitch with the assignment left out.
ProfileAfterSwitch_Stale(profile_num) == current_profile

\* As ProfileAfterSwitch when a failed write takes the assignment back.
ProfileAfterSwitch_RolledBack(profile_num) ==
    IF writable THEN profile_num ELSE current_profile

\* line 120: self.current_profile = profile_num
ProfileAfterSwitch(profile_num) == profile_num

\* line 129: the released key is in local_keys_pressed
ReleasesPressedKey(event, keys) == event.name \in keys

\* As ChordBroken, but only when no modifier is left pressed.
ChordBroken_BothReleased(keys, combo) == combo /\ keys \cap Modifiers = {}

\* As ChordBroken without the test of local_combo_active.
ChordBroken_Unguarded(keys, combo) == ~(Modifiers \subseteq keys)

\* line 133: the combo is active and a modifier is missing
ChordBroken(keys, combo) == combo /\ ~(Modifiers \subseteq keys)

\* The worker's locals and the shared fields as they are, with no call.
Same(me) ==
    [keys |-> me.keys, combo |-> me.combo, flag |-> is_combo_active,
     profile |-> current_profile, file |-> profile_file, calls |-> NoCall]

\* lines 120-125: the switch to profile_num, from the assignment on
Switched(same, profile_num) ==
    LET switched == ProfileAfterSwitch(profile_num) IN
    [same EXCEPT
        !.profile = switched,
        !.file = save_profile(switched, profile_file, writable),
        !.calls = <<Call("_save_profile", switched),
                    Call("on_profile_change", profile_num)>>]

\* The body of the loop for one event (lines 101-139): the worker's locals,
\* the shared fields and the callbacks invoked, after the event.
Recognize(me, event) ==
    LET same == Same(me)
    IN
    IF event.type = KEY_DOWN THEN
        IF NewModifierDown(event, me.keys) THEN
            LET keys1 == me.keys \cup {event.name} IN
            IF ChordComplete(keys1, me.combo)
            THEN [same EXCEPT !.keys = keys1, !.combo = TRUE, !.flag = TRUE,
                              !.calls = <<Call("on_start", current_profile)>>]
            ELSE [same EXCEPT !.keys = keys1]
        ELSE IF SelectorWhileArmed(event, me.combo) THEN
            LET profile_num == key_to_profile[event.name] IN
            IF SwitchesProfile(profile_num, current_profile)
            THEN Switched(same, profile_num)
            ELSE same
        ELSE same
    ELSE IF event.type = KEY_UP THEN
        IF ReleasesPressedKey(event, me.keys) THEN
            LET keys1 == me.keys \ {event.name} IN
            IF ChordBroken(keys1, me.combo)
            THEN [same EXCEPT !.keys = keys1, !.combo = FALSE, !.flag = FALSE,
                              !.calls = <<Call("on_stop", current_profile)>>]
            ELSE [same EXCEPT !.keys = keys1]
        ELSE same
    ELSE same

\* line 96: while self.running
WorkerLoop(w) ==
    /\ worker[w].pc = "loop"
    /\ UNCHANGED <<stopping2, pending, ghm,
                   htr>>
    /\ worker' = [worker EXCEPT ![w] =
                     IF running THEN [@ EXCEPT !.pc = "get"] ELSE DeadWorker]
    /\ observed' = NoObservation
    /\ calls' = NoCall
    /\ handled' = NotHandled
    /\ UNCHANGED <<supported_profiles, profile_file, writable, engine,
                   current_profile, is_combo_active, hook_active, running,
                   os_hooks, event_queue, event_thread, stopping, last_known>>

\* lines 99, 141-143: get(timeout=0.1) raises queue.Empty
WorkerTimeout(w) ==
    /\ worker[w].pc = "get"
    /\ event_queue = <<>>
    /\ UNCHANGED <<stopping2, pending, ghm,
                   htr>>
    /\ worker' = [worker EXCEPT ![w].pc = "loop"]
    /\ observed' = NoObservation
    /\ calls' = NoCall
    /\ handled' = NotHandled
    /\ UNCHANGED <<supported_profiles, profile_file, writable, engine,
                   current_profile, is_combo_active, hook_active, running,
                   os_hooks, event_queue, event_thread, stopping, last_known>>

\* As Dequeued for a queue that hands out its newest item first.
Dequeued_NewestFirst(q) ==
    [event |-> q[Len(q)], rest |-> SubSeq(q, 1, Len(q) - 1)]

\* line 99: the event queue.Queue.get returns, the oldest one in the queue,
\* and the queue it leaves.
Dequeued(q) == [event |-> Head(q), rest |-> Tail(q)]

\* The callbacks among the calls of a step.
Callbacks(cs) ==
    {i \in 1..Len(cs) : cs[i].cb \in {"on_start", "on_profile_change", "on_stop"}}

\* As AfterCallback when a raising callback resets the recognizer.
AfterCallback_Reset(r, raises) ==
    IF raises THEN [r EXCEPT !.keys = {}, !.combo = FALSE] ELSE r

\* lines 110-113, 122-125, 136-139: the callback is the last statement of
\* its branch and an exception it raises is logged, so the outcome of the
\* event is the same whether it raises or returns.
AfterCallback(r, raises) == r

\* Worker w ends the loop body for `event` with the outcome r0 and goes on
\* at pc; `raises` tells whether the callback invoked raises, and `stale`
\* whether the event was in the queue when stop() was called.
Apply(w, event, r0, raises, pc, stale) ==
    LET r == AfterCallback(r0, raises)
        announced == {i \in 1..Len(r.calls) :
                         r.calls[i].cb \in {"on_start", "on_profile_change"}}
        started == {i \in 1..Len(r.calls) : r.calls[i].cb = "on_start"}
        me == [pc |-> IF Callbacks(r.calls) = {} THEN "loop" ELSE pc,
               keys |-> r.keys, combo |-> r.combo,
               starts |->
                 IF event.type = KEY_UP /\ event.name \in Modifiers
                 THEN 0
                 ELSE worker[w].starts + Cardinality(started),
               event |-> NoEvent, ticket |-> 0,
               inside |-> IF Callbacks(r.calls) = {} \/ pc # "callback"
                          THEN Outside
                          ELSE r.calls[CHOOSE i \in Callbacks(r.calls) : TRUE],
               stale |-> FALSE]
    IN
    /\ UNCHANGED <<stopping2, ghm,
                   htr>>
    /\ raises => Callbacks(r.calls) # {}
    /\ worker' = [v \in WorkerIds |->
                     IF v = w THEN me
                     ELSE IF worker[v].ticket > worker[w].ticket
                          THEN [worker[v] EXCEPT !.ticket = @ - 1]
                          ELSE worker[v]]
    /\ is_combo_active' = r.flag
    /\ current_profile' = r.profile
    /\ profile_file' = r.file
    /\ calls' = r.calls
    /\ last_known' =
          IF announced = {} THEN last_known
          ELSE r.calls[CHOOSE i \in announced :
                          \A j \in announced : j <= i].profile
    /\ observed' = NoObservation
    /\ handled' = [Handled("event", event, worker[w]) EXCEPT
                      !.raised = raises, !.stale = stale]
    /\ UNCHANGED <<supported_profiles, writable, engine, hook_active, running,
                   os_hooks, event_thread, stopping>>

\* The loop body for `event` (lines 101-139) run by worker w in one step.
Handle(w, event, raises, pc, stale) ==
    Apply(w, event, Recognize(worker[w], event), raises, pc, stale)

\* lines 99-139 in one step: get() returns an event, the loop body handles
\* it, and the callback it invokes returns or raises.
WorkerEvent(w) ==
    /\ worker[w].pc = "get"
    /\ event_queue # <<>>
    /\ event_queue' = Dequeued(event_queue).rest
    /\ pending' = IF pending > 0 THEN pending - 1 ELSE 0
    /\ \E raises \in BOOLEAN :
          Handle(w, Dequeued(event_queue).event, raises, "loop", pending > 0)

\* line 99 alone: get() returns an event, which the thread holds until it
\* runs the loop body.
WorkerGet(w) ==
    /\ worker[w].pc = "get"
    /\ event_queue # <<>>
    /\ event_queue' = Dequeued(event_queue).rest
    /\ worker' = [worker EXCEPT ![w] =
                     [@ EXCEPT !.pc = "handle",
                               !.event = Dequeued(event_queue).event,
                               !.ticket = Cardinality({v \in WorkerIds :
                                              worker[v].pc = "handle"}),
                               !.stale = pending > 0]]
    /\ pending' = IF pending > 0 THEN pending - 1 ELSE 0
    /\ UNCHANGED <<stopping2, ghm,
                   htr>>
    /\ observed' = NoObservation
    /\ calls' = NoCall
    /\ handled' = NotHandled
    /\ UNCHANGED <<supported_profiles, profile_file, writable, engine,
                   current_profile, is_combo_active, hook_active, running,
                   os_hooks, event_thread, stopping, last_known>>

\* lines 101-139 alone, up to the call of a callback: the thread is then
\* inside the callback.
WorkerHandle(w) ==
    /\ worker[w].pc = "handle"
    /\ UNCHANGED <<event_queue, pending>>
    /\ Handle(w, worker[w].event, FALSE, "callback", worker[w].stale)

\* The callback returns or raises (lines 111-113, 123-125, 137-139), after
\* any time, or never.
CallbackReturn(w) ==
    /\ worker[w].pc = "callback"
    /\ worker' = [worker EXCEPT ![w].pc = "loop", ![w].inside = Outside]
    /\ UNCHANGED <<stopping2, pending, ghm,
                   htr>>
    /\ observed' = NoObservation
    /\ calls' = NoCall
    /\ handled' = NotHandled
    /\ UNCHANGED <<supported_profiles, profile_file, writable, engine,
                   current_profile, is_combo_active, hook_active, running,
                   os_hooks, event_queue, event_thread, stopping, last_known>>

\* Worker w holds the Down of a selector, its combo is active, and the test
\* of lines 118-119 succeeds on the value current_profile has now.
TestsSwitch(w) ==
    /\ worker[w].pc = "handle"
    /\ worker[w].event.type = KEY_DOWN
    /\ ~NewModifierDown(worker[w].event, worker[w].keys)
    /\ SelectorWhileArmed(worker[w].event, worker[w].combo)
    /\ SwitchesProfile(key_to_profile[worker[w].event.name], current_profile)

\* lines 101-119 alone, for a selector Down that switches: the thread has
\* read current_profile and not yet assigned it.
WorkerTest(w) ==
    /\ TestsSwitch(w)
    /\ worker' = [worker EXCEPT ![w].pc = "switch"]
    /\ observed' = NoObservation
    /\ calls' = NoCall
    /\ handled' = NotHandled
    /\ UNCHANGED <<supported_profiles, profile_file, writable, engine,
                   current_profile, is_combo_active, hook_active, running,
                   os_hooks, event_queue, event_thread, stopping, last_known,
                   stopping2, pending, ghm,
                   htr>>

\* lines 120-125 alone, up to the call of on_profile_change
WorkerSwitch(w) ==
    /\ worker[w].pc = "switch"
    /\ UNCHANGED <<event_queue, pending>>
    /\ Apply(w, worker[w].event,
             Switched(Same(worker[w]),
                      key_to_profile[worker[w].event.name]),
             FALSE, "callback", worker[w].stale)

\* WorkerHandle for every other event
WorkerHandleRest(w) ==
    /\ ~TestsSwitch(w)
    /\ WorkerHandle(w)

\* The record of a stop() that ended in an exception.
StopRaised == [op |-> "stop_raised"]

\* stop() called by the callback that worker w is inside, w being the
\* thread start() created last: the call runs on that thread, finds it alive
\* (line 161) and joins it (line 162), and Thread.join raises RuntimeError
\* for the current thread, so that lines 165-174 are not reached.
stop_on_worker(w) ==
    /\ engine = "ready"
    /\ worker[w].pc = "callback"
    /\ event_thread = w
    /\ hook_active
    /\ running' = FALSE
    /\ handled' = StopRaised
    /\ observed' = NoObservation
    /\ calls' = NoCall
    /\ UNCHANGED <<supported_profiles, profile_file, writable, engine,
                   current_profile, is_combo_active, hook_active, os_hooks,
                   event_queue, event_thread, worker, stopping, last_known,
                   stopping2, pending, ghm,
                   htr>>

-----------------------------------------------------------------------------
\* The steps of the caller of start/stop and of the worker threads.
EngineStep ==
    \/ Construct
    \/ start
    \/ stop_begin
    \/ stop_end
    \/ \E w \in WorkerIds : WorkerLoop(w)
    \/ \E w \in WorkerIds : WorkerTimeout(w)
    \/ \E w \in WorkerIds : WorkerEvent(w)

Next == EngineStep \/ KeyEvent

Spec == Init /\ [][Next]_vars

\* The same engine, with the result of every hook call on record.
NextObs == EngineStep \/ ObservedKeyEvent

SpecObs == Init /\ [][NextObs]_vars

\* The constructor arguments and file contents of SpecCtor.
CtorSupported == SUBSET {0, 1, 2, 3}
CtorFiles ==
    {Absent, <<>>, <<" ">>, <<"0">>, <<"1">>, <<"2">>, <<"2", "\n">>,
     <<" ", "3", "\n">>, <<"9">>, <<"-", "1">>, <<"+", "2">>, <<"1", "2">>,
     <<"x">>, <<"1", "x">>, <<"2", " ", "3">>}

InitCtor ==
    /\ supported_profiles \in CtorSupported
    /\ profile_file \in CtorFiles
    /\ writable \in BOOLEAN
    /\ engine = "new"
    /\ current_profile = NoProfile
    /\ is_combo_active = FALSE
    /\ hook_active = FALSE
    /\ running = FALSE
    /\ os_hooks = 0
    /\ event_queue = <<>>
    /\ event_thread = NoThread
    /\ worker = [w \in WorkerIds |-> DeadWorker]
    /\ stopping = FALSE
    /\ observed = NoObservation
    /\ calls = NoCall
    /\ last_known = NoProfile
    /\ handled = NotHandled
    /\ stopping2 = FALSE
    /\ pending = 0
    /\ ghm = NewGhm
    /\ htr = NoHtr

\* Construction, start and stop over a wider range of constructor arguments
\* and file contents, with no key pressed.
NextCtor ==
    \/ Construct
    \/ start
    \/ stop_begin
    \/ stop_end
    \/ \E w \in WorkerIds : WorkerLoop(w)
    \/ \E w \in WorkerIds : WorkerTimeout(w)

SpecCtor == InitCtor /\ [][NextCtor]_vars

\* The engine with the worker's steps taken apart: a thread can be
\* descheduled between get() and the loop body, and a callback can take any
\* time, so that the join of stop() can time out and a later start() run a
\* second thread beside the first.
\* The key events the hook is offered in SpecConc: those of the modifiers.
ConcEvents == [name : Modifiers, type : EventTypes]

\* A key event reaches the hook in SpecConc; the call's result is recorded.
ConcKeyEvent ==
    \E event \in ConcEvents, result \in BOOLEAN :
        /\ event.name \in monitored_keys => Len(event_queue) < MaxBacklog
        /\ _on_key_event(event, result)
        /\ observed' = [name |-> event.name, type |-> event.type,
                        suppress |-> result]

InitConc ==
    /\ Init
    /\ supported_profiles = {1, 2}
    /\ profile_file = Absent
    /\ writable

NextConc ==
    \/ Construct
    \/ start
    \/ stop_begin
    \/ stop_end
    \/ stop_timeout
    \/ \E w \in WorkerIds : WorkerLoop(w)
    \/ \E w \in WorkerIds : WorkerTimeout(w)
    \/ \E w \in WorkerIds : WorkerGet(w)
    \/ \E w \in WorkerIds : WorkerHandle(w)
    \/ \E w \in WorkerIds : CallbackReturn(w)
    \/ ConcKeyEvent

SpecConc == InitConc /\ [][NextConc]_vars

\* The engine with supported_profiles = {1, 2} and a fresh store, offered
\* the events of a plain key as well.
HookNames == KeyNames \cup {"a"}

HookKeyEvent ==
    \E event \in [name : HookNames, type : EventTypes], result \in BOOLEAN :
        /\ _on_key_event(event, result)
        /\ observed' = [name |-> event.name, type |-> event.type,
                        suppress |-> result]

NextHook == EngineStep \/ HookKeyEvent

SpecHook == InitConc /\ [][NextHook]_vars

\* The engine of SpecConc with stop() called by a second thread and by a
\* callback, offered the Down events of the modifiers.
StopEvents == [name : Modifiers, type : {KEY_DOWN}]

StopKeyEvent ==
    \E event \in StopEvents, result \in BOOLEAN :
        /\ Len(event_queue) < MaxBacklog
        /\ _on_key_event(event, result)
        /\ observed' = [name |-> event.name, type |-> event.type,
                        suppress |-> result]

NextStop ==
    \/ Construct
    \/ start
    \/ stop_begin
    \/ stop_end
    \/ stop_timeout
    \/ stop2_begin
    \/ stop2_end
    \/ \E w \in WorkerIds : stop_on_worker(w)
    \/ \E w \in WorkerIds : WorkerLoop(w)
    \/ \E w \in WorkerIds : WorkerTimeout(w)
    \/ \E w \in WorkerIds : WorkerGet(w)
    \/ \E w \in WorkerIds : WorkerHandle(w)
    \/ \E w \in WorkerIds : CallbackReturn(w)
    \/ StopKeyEvent

SpecStop == InitConc /\ [][NextStop]_vars

\* SpecStop where a thread that can take a step does so in the end, and so
\* does a join that can return; a callback need not ever return, and no key
\* need ever be pressed.
StopFairness ==
    /\ WF_vars(stop_end)
    /\ WF_vars(stop_timeout)
    /\ WF_vars(stop2_end)
    /\ \A w \in WorkerIds :
          /\ WF_vars(WorkerLoop(w))
          /\ WF_vars(WorkerTimeout(w))
          /\ WF_vars(WorkerGet(w))
          /\ WF_vars(WorkerHandle(w))

SpecStopFair == SpecStop /\ StopFairness

\* The engine with one step per event, where stop() counts the events it
\* finds in the queue.
NextDrain ==
    \/ Construct
    \/ start
    \/ CountedStop
    \/ stop_end
    \/ \E w \in WorkerIds : WorkerLoop(w)
    \/ \E w \in WorkerIds : WorkerTimeout(w)
    \/ \E w \in WorkerIds : WorkerEvent(w)
    \/ ConcKeyEvent

SpecDrain == InitConc /\ [][NextDrain]_vars

\* The engine of Spec with supported_profiles = {1, 2} and a store holding
\* "2", where a worker thread that can take a step does so in the end; every
\* callback returns within the step that calls it.
WorkerFairness ==
    \A w \in WorkerIds :
        /\ WF_vars(WorkerLoop(w))
        /\ WF_vars(WorkerTimeout(w))
        /\ WF_vars(WorkerEvent(w))

InitLive ==
    /\ Init
    /\ supported_profiles = {1, 2}
    /\ <<"2">> = profile_file
    /\ writable

SpecLive == InitLive /\ [][Next]_vars /\ WorkerFairness

\* The engine of SpecConc offered the Down events of the modifiers and of
\* the selector keys of profiles 1 and 2.
SwitchEvents == [name : Modifiers \cup {"!", "@"}, type : {KEY_DOWN}]

SwitchKeyEvent ==
    \E event \in SwitchEvents, result \in BOOLEAN :
        /\ Len(event_queue) < MaxBacklog
        /\ _on_key_event(event, result)
        /\ observed' = [name |-> event.name, type |-> event.type,
                        suppress |-> result]

InitSwitch ==
    /\ Init
    /\ supported_profiles = {1, 2}
    /\ <<"2">> = profile_file

NextSwitch ==
    \/ Construct
    \/ start
    \/ stop_begin
    \/ stop_end
    \/ stop_timeout
    \/ \E w \in WorkerIds : WorkerLoop(w)
    \/ \E w \in WorkerIds : WorkerTimeout(w)
    \/ \E w \in WorkerIds : WorkerGet(w)
    \/ \E w \in WorkerIds : WorkerHandle(w)
    \/ \E w \in WorkerIds : CallbackReturn(w)
    \/ SwitchKeyEvent

SpecSwitch == InitSwitch /\ [][NextSwitch]_vars

\* The engine of SpecSwitch where a thread can be descheduled between its
\* test of current_profile (line 119) and its assignment (line 120).
NextRace ==
    \/ Construct
    \/ start
    \/ stop_begin
    \/ stop_end
    \/ stop_timeout
    \/ \E w \in WorkerIds : WorkerLoop(w)
    \/ \E w \in WorkerIds : WorkerTimeout(w)
    \/ \E w \in WorkerIds : WorkerGet(w)
    \/ \E w \in WorkerIds : WorkerTest(w)
    \/ \E w \in WorkerIds : WorkerSwitch(w)
    \/ \E w \in WorkerIds : WorkerHandleRest(w)
    \/ \E w \in WorkerIds : CallbackReturn(w)
    \/ SwitchKeyEvent

SpecRace == InitSwitch /\ [][NextRace]_vars

\* The engine of Spec where every queued event carries the value the hook
\* call returned for it (lines 82-89), for the keys of one chord and one
\* selector.
TagEvents == [name : Modifiers \cup {"@"}, type : EventTypes]

TaggedKeyEvent ==
    \E event \in TagEvents, result \in BOOLEAN :
        /\ _on_key_event([name |-> event.name, type |-> event.type,
                          suppress |-> result], result)
        /\ observed' = NoObservation

NextTag == EngineStep \/ TaggedKeyEvent

SpecTag == InitConc /\ [][NextTag]_vars

\* RecordingOverlay._switch_to_profile (ui/overlay.py, lines 650-657), run on
\* the click of a profile button or its shortcut (lines 803-807): the
\* overlay, whose profiles are those the engine supports (main.py, lines
\* 189-201), writes the profile to the same ./.profile.txt (line 339, lines
\* 642-648) and tells the engine nothing.
_switch_to_profile ==
    /\ engine = "ready"
    /\ \E profile_num \in supported_profiles :
          profile_file' = save_profile(profile_num, profile_file, writable)
    /\ observed' = NoObservation
    /\ calls' = NoCall
    /\ handled' = NotHandled
    /\ UNCHANGED <<supported_profiles, writable, engine, current_profile,
                   is_combo_active, hook_active, running, os_hooks,
                   event_queue, event_thread, worker, stopping, last_known,
                   stopping2, pending, ghm, htr>>

\* The engine of Spec beside the overlay of the application.
NextOverlay == EngineStep \/ KeyEvent \/ _switch_to_profile

SpecOverlay == InitConc /\ [][NextOverlay]_vars

-----------------------------------------------------------------------------
(* GlobalHotkeyManager (global_hotkey_manager.py)                          *)

\* lines 59 and 66: the names the keyboard library gives the modifiers
CtrlNames == {"ctrl", "left ctrl", "right ctrl"}
ShiftNames == {"shift", "left shift", "right shift"}

\* The keys pressed in SpecGhm.
GhmKeys == {"ctrl", "right ctrl", "shift", "a"}
GhmEvents == [name : GhmKeys, type : EventTypes]

\* As Invalidates when no key invalidates the combo.
Invalidates_Never(ctrl, shift) == FALSE

\* line 75: another key goes down while ctrl or shift is pressed
Invalidates(ctrl, shift) == ctrl \/ shift

\* _reset_combo_state (lines 120-132)
_reset_combo_state(g) ==
    [g EXCEPT !.other_key_pressed = FALSE, !.combo_start_time = NoTime,
              !.ctrl_pressed = FALSE, !.shift_pressed = FALSE]

\* lines 58-77: a KEY_DOWN event
GhmDown(g, name) ==
    IF name \in CtrlNames
    THEN IF ~g.ctrl_pressed
         THEN [g EXCEPT !.ctrl_pressed = TRUE,
                        !.combo_start_time =
                            IF g.shift_pressed /\ g.combo_start_time = NoTime
                            THEN Started ELSE @]
         ELSE g
    ELSE IF name \in ShiftNames
    THEN IF ~g.shift_pressed
         THEN [g EXCEPT !.shift_pressed = TRUE,
                        !.combo_start_time =
                            IF g.ctrl_pressed /\ g.combo_start_time = NoTime
                            THEN Started ELSE @]
         ELSE g
    ELSE IF Invalidates(g.ctrl_pressed, g.shift_pressed)
         THEN [g EXCEPT !.other_key_pressed = TRUE]
         ELSE g

\* lines 85-95 and 102-112: after a release, the check for a clean combo
GhmReleased(g) ==
    IF ~g.ctrl_pressed /\ ~g.shift_pressed /\ g.combo_start_time # NoTime
    THEN [_reset_combo_state(g) EXCEPT
              !.fired = IF ~g.other_key_pressed THEN 1 ELSE 0]
    ELSE g

\* lines 79-112: a KEY_UP event
GhmUp(g, name) ==
    IF name \in CtrlNames
    THEN IF g.ctrl_pressed
         THEN GhmReleased([g EXCEPT !.ctrl_pressed = FALSE])
         ELSE g
    ELSE IF name \in ShiftNames
    THEN IF g.shift_pressed
         THEN GhmReleased([g EXCEPT !.shift_pressed = FALSE])
         ELSE g
    ELSE g

\* The record of what has happened since the first of ctrl and shift went
\* down, brought up to date for `event` handled in g with the result n.
GhmRecord(g, event, n) ==
    LET held == g.ctrl_pressed \/ g.shift_pressed
        modifier == event.name \in CtrlNames \cup ShiftNames
        first == event.type = KEY_DOWN /\ modifier /\ ~held
        other == event.type = KEY_DOWN /\ ~modifier
    IN  [n EXCEPT
           !.both = (~first /\ g.both) \/ (n.ctrl_pressed /\ n.shift_pressed),
           !.dirty = ~first /\ (g.dirty \/ (other /\ held)),
           !.cancelled = ~first /\ (g.cancelled \/
                            (other /\ g.ctrl_pressed /\ g.shift_pressed)),
           !.ended = /\ event.type = KEY_UP /\ modifier /\ held
                     /\ ~n.ctrl_pressed /\ ~n.shift_pressed]

\* The fields of g with the record of the last step cleared.
GhmQuiet(g) == [g EXCEPT !.ended = FALSE, !.fired = 0]

PshUnchanged ==
    UNCHANGED <<supported_profiles, profile_file, writable, engine,
                current_profile, is_combo_active, hook_active, running,
                os_hooks, event_queue, event_thread, worker, stopping,
                observed, calls, last_known, handled, stopping2, pending,
                htr>>

\* start (lines 134-145)
GhmStart ==
    /\ ghm' = IF ~ghm.hook_active
              THEN [GhmQuiet(ghm) EXCEPT !.running = TRUE,
                                         !.hook_active = TRUE]
              ELSE GhmQuiet(ghm)
    /\ PshUnchanged

\* stop (lines 147-166), the thread ending within the time of the join
GhmStop ==
    /\ ghm' = IF ghm.hook_active
              THEN [GhmQuiet(ghm) EXCEPT !.running = FALSE,
                                         !.hook_active = FALSE,
                                         !.event_queue = <<>>]
              ELSE GhmQuiet(ghm)
    /\ PshUnchanged

\* _on_key_event (lines 37-50): every event is queued, none is suppressed
GhmKeyEvent ==
    \E event \in GhmEvents :
        /\ ghm.hook_active
        /\ Len(ghm.event_queue) < MaxQueue
        /\ ghm' = [GhmQuiet(ghm) EXCEPT
                      !.event_queue = Append(ghm.event_queue, event)]
        /\ PshUnchanged

\* One turn of the loop of _process_events (lines 54-113) that gets an
\* event.
GhmProcess ==
    /\ ghm.running
    /\ ghm.event_queue # <<>>
    /\ LET event == Head(ghm.event_queue)
           g == [GhmQuiet(ghm) EXCEPT !.event_queue = Tail(ghm.event_queue)]
           n == IF event.type = KEY_DOWN THEN GhmDown(g, event.name)
                                         ELSE GhmUp(g, event.name)
       IN  ghm' = GhmRecord(g, event, n)
    /\ PshUnchanged

NextGhm == GhmStart \/ GhmStop \/ GhmKeyEvent \/ GhmProcess

SpecGhm == InitConc /\ [][NextGhm]_vars

\* The two objects that have a start(): ProfileSwitchingHotkey, which
\* main.py constructs, and GlobalHotkeyManager, which test_ctrl_shift.py
\* constructs; no program has both, so the steps of the one are taken while
\* the other is as constructed.
NextStart ==
    \/ /\ ghm = NewGhm
       /\ \/ Construct
          \/ NotedStart
          \/ stop_begin
          \/ stop_end
          \/ \E w \in WorkerIds : WorkerLoop(w)
          \/ \E w \in WorkerIds : WorkerTimeout(w)
          \/ \E w \in WorkerIds : WorkerEvent(w)
          \/ KeyEvent
    \/ /\ engine = "new"
       /\ NextGhm

SpecStart == InitConc /\ [][NextStart]_vars

-----------------------------------------------------------------------------
(* HoldToRecordHotkeyManager (hotkey.py)                                   *)

\* The shortcuts of SpecHtr, as the parts shortcut.lower().replace(' ',
\* '').split('+') yields (line 85), and the keys pressed.
HtrShortcuts ==
    {<<"ctrl", "shift">>, <<"win", "a">>, <<"shift", "a">>,
     <<"ctrl", "shift", "a">>}
HtrNames == {"ctrl", "shift", "windows", "a"}

\* _parse_shortcut (lines 83-98): 'win' stands for the key 'windows'
_parse_shortcut(parts) ==
    {IF parts[i] = "win" THEN "windows" ELSE parts[i] : i \in 1..Len(parts)}

\* As Incomplete when the combination ends only with the last release.
Incomplete_AllReleased(keys, pressed) == pressed = {}

\* line 129: not (set(self.keys) <= self.keys_pressed)
Incomplete(keys, pressed) == ~(keys \subseteq pressed)

\* lines 108-120: a KEY_DOWN event of one of the keys
HtrDown(h, name) ==
    IF name \notin h.keys_pressed
    THEN LET pressed == h.keys_pressed \cup {name} IN
         IF ~h.is_pressed /\ h.keys \subseteq pressed
         THEN [h EXCEPT !.keys_pressed = pressed, !.is_pressed = TRUE,
                        !.is_recording = TRUE,
                        !.emitted = IF ~h.is_recording
                                    THEN "recording_started" ELSE NoSignal]
         ELSE [h EXCEPT !.keys_pressed = pressed]
    ELSE h

\* lines 122-134: a KEY_UP event of one of the keys
HtrUp(h, name) ==
    IF name \in h.keys_pressed
    THEN LET pressed == h.keys_pressed \ {name} IN
         IF h.is_pressed /\ Incomplete(h.keys, pressed)
         THEN [h EXCEPT !.keys_pressed = pressed, !.is_pressed = FALSE,
                        !.is_recording = FALSE,
                        !.emitted = IF h.is_recording
                                    THEN "recording_stopped" ELSE NoSignal]
         ELSE [h EXCEPT !.keys_pressed = pressed]
    ELSE h

\* The fields of h at the start of a step: the signal of the step before
\* has become the latest one.
HtrQuiet(h) ==
    [h EXCEPT !.emitted = NoSignal, !.repeat = FALSE,
              !.prev = IF h.emitted # NoSignal THEN h.emitted ELSE @]

HtrOthersUnchanged ==
    UNCHANGED <<supported_profiles, profile_file, writable, engine,
                current_profile, is_combo_active, hook_active, running,
                os_hooks, event_queue, event_thread, worker, stopping,
                observed, calls, last_known, handled, stopping2, pending,
                ghm>>

\* HoldToRecordHotkeyManager(shortcut_key) (lines 59-81)
HtrConstruct ==
    /\ htr.state = "new"
    /\ \E parts \in HtrShortcuts :
          htr' = [NoHtr EXCEPT !.state = "hooked",
                               !.keys = _parse_shortcut(parts)]
    /\ HtrOthersUnchanged

\* _on_key_event (lines 100-136)
HtrKeyEvent ==
    /\ htr.state = "hooked"
    /\ \E event \in [name : HtrNames, type : EventTypes] :
          LET h == HtrQuiet(htr) IN
          htr' = IF event.name \notin h.keys THEN h
                 ELSE IF event.type = KEY_DOWN
                      THEN [HtrDown(h, event.name) EXCEPT
                               !.repeat = event.name \in h.keys_pressed]
                      ELSE HtrUp(h, event.name)
    /\ HtrOthersUnchanged

\* unregister_all (lines 146-152)
unregister_all ==
    /\ htr.state = "hooked"
    /\ htr' = [HtrQuiet(htr) EXCEPT !.state = "unhooked"]
    /\ HtrOthersUnchanged

NextHtr == HtrConstruct \/ HtrKeyEvent \/ unregister_all

SpecHtr == InitConc /\ [][NextHtr]_vars

-----------------------------------------------------------------------------
(* Properties                                                              *)

\* The number of calls of callback cb in a step's calls.
Count(cs, cb) == Cardinality({i \in 1..Len(cs) : cs[i].cb = cb})

Symbols == DOMAIN key_to_profile
HandledEvent == handled.op = "event"
HandledDown(names) ==
    HandledEvent /\ handled.event.type = KEY_DOWN /\ handled.event.name \in names
HandledUp(names) ==
    HandledEvent /\ handled.event.type = KEY_UP /\ handled.event.name \in names

\* C1 (P1, state consistency): whenever a worker has finished an event, its
\* local_combo_active is true if and only if both ctrl and shift are in its
\* local_keys_pressed.
C1_StateConsistency ==
    \A w \in WorkerIds :
        worker[w].combo <=> (Modifiers \subseteq worker[w].keys)

\* Reached: a worker that is armed after the Down of the second modifier.
C1_Witness ==
    /\ HandledDown(Modifiers)
    /\ \E w \in WorkerIds : worker[w].combo /\ worker[w].keys = Modifiers

\* C2 (P2, single arm per press): handling an event invokes on_start once
\* when the event is the Down of a modifier that was not pressed while the
\* other one was, and never otherwise; a Down of a modifier already pressed
\* invokes nothing and changes nothing; and the number of on_start calls a
\* worker has made since the last modifier Up it handled is 1 when both
\* modifiers are pressed and 0 when not.
C2_SingleArmPerPress ==
    /\ HandledEvent =>
         LET second == /\ handled.event.type = KEY_DOWN
                       /\ handled.event.name \in Modifiers
                       /\ handled.event.name \notin handled.keys
                       /\ (Modifiers \ {handled.event.name}) \subseteq handled.keys
         IN  Count(calls, "on_start") = IF second THEN 1 ELSE 0
    /\ (HandledDown(Modifiers) /\ handled.event.name \in handled.keys) =>
         /\ calls = NoCall
         /\ \A w \in WorkerIds : worker[w].pc = "loop" =>
                worker[w].keys = handled.keys /\ worker[w].combo = handled.combo
    /\ \A w \in WorkerIds :
         worker[w].starts = IF Modifiers \subseteq worker[w].keys THEN 1 ELSE 0

\* Reached: a repeated Down of a pressed modifier was handled after the one
\* on_start of the press.
C2_Witness ==
    /\ HandledDown(Modifiers)
    /\ handled.event.name \in handled.keys
    /\ handled.keys = Modifiers
    /\ \E w \in WorkerIds : worker[w].starts = 1

\* C3 (P3, disarm on either release): handling the Up of a modifier while
\* armed invokes on_stop exactly once and leaves the worker idle; handling
\* the Up of a modifier while idle invokes no callback.
C3_DisarmOnEitherRelease ==
    HandledUp(Modifiers) =>
        /\ Count(calls, "on_stop") = IF handled.combo THEN 1 ELSE 0
        /\ Len(calls) = Count(calls, "on_stop")
        /\ \A w \in WorkerIds : worker[w].pc = "loop" => ~worker[w].combo

\* Reached: the Up of one modifier was handled while armed, the other
\* modifier is still pressed.
C3_Witness ==
    /\ HandledUp(Modifiers)
    /\ handled.combo
    /\ Count(calls, "on_stop") = 1
    /\ \E w \in WorkerIds : Cardinality(worker[w].keys) = 1

\* C4 (P4, switch while armed): handling the Down of a selector symbol while
\* armed, whose profile is supported and is not the current one, invokes
\* on_profile_change exactly once, with that profile, and makes it the
\* current profile.
C4_SwitchWhileArmed ==
    (/\ HandledDown(Symbols)
     /\ handled.combo
     /\ key_to_profile[handled.event.name] \in supported_profiles
     /\ key_to_profile[handled.event.name] # handled.profile) =>
        /\ Count(calls, "on_profile_change") = 1
        /\ \A i \in 1..Len(calls) :
              calls[i].cb = "on_profile_change" =>
                  calls[i].profile = key_to_profile[handled.event.name]
        /\ current_profile = key_to_profile[handled.event.name]

\* Reached: a switch to another profile was handled.
C4_Witness ==
    /\ HandledDown(Symbols)
    /\ handled.combo
    /\ handled.profile # current_profile
    /\ Count(calls, "on_profile_change") = 1

\* C5 (P4, no switch while idle): handling the Down or the Up of a selector
\* symbol while idle invokes no callback, does not call _save_profile, and
\* leaves current_profile and the profile file as they were.
C5_NoSwitchWhileIdle ==
    (HandledEvent /\ handled.event.name \in Symbols /\ ~handled.combo) =>
        /\ calls = NoCall
        /\ current_profile = handled.profile
        /\ profile_file = handled.file

\* Reached: the Down of the selector of another supported profile was
\* handled while idle.
C5_Witness ==
    /\ HandledDown(Symbols)
    /\ ~handled.combo
    /\ key_to_profile[handled.event.name] \in supported_profiles
    /\ key_to_profile[handled.event.name] # handled.profile
    /\ calls = NoCall

\* C6 (suppression rule): a hook call returns "suppress" only for the Down
\* of a monitored selector symbol seen while is_combo_active is true; never
\* for a modifier, never for an Up, never for a key outside the monitored set.
C6_SuppressionRule ==
    observed # NoObservation =>
        /\ observed.suppress =>
              /\ observed.type = KEY_DOWN
              /\ observed.name \in monitored_symbols
              /\ is_combo_active
        /\ observed.name \in Modifiers => ~observed.suppress
        /\ observed.type = KEY_UP => ~observed.suppress
        /\ observed.name \notin monitored_keys => ~observed.suppress

\* Reached: a hook call that returned "suppress".
C6_Witness == observed # NoObservation /\ observed.suppress

\* C7 (P4, no suppression while idle): a hook call for the Down of a
\* selector symbol, made while the worker of the engine is alive and idle,
\* does not return "suppress".
C7_NoSuppressionWhileIdle ==
    (/\ observed # NoObservation
     /\ observed.type = KEY_DOWN
     /\ observed.name \in Symbols
     /\ event_thread # NoThread
     /\ worker[event_thread].pc # "none"
     /\ ~worker[event_thread].combo) =>
        ~observed.suppress

\* C8 (the active profile is supported): once construction has succeeded,
\* current_profile is a member of supported_profiles.
C8_ActiveProfileSupported ==
    engine = "ready" => current_profile \in supported_profiles

\* Reached: construction succeeded on a file whose value is not supported.
C8_Witness ==
    /\ engine = "ready"
    /\ handled.op = "construct"
    /\ handled.file # Absent
    /\ load_profile(handled.file).value \notin supported_profiles

\* C9 (profile carried by arm and disarm): every on_start and on_stop call
\* carries current_profile as it is at the call, which is the profile of the
\* latest earlier on_start or on_profile_change call, or the constructed
\* profile when there was none.
C9_ProfileCarried ==
    HandledEvent =>
        \A i \in 1..Len(calls) :
            calls[i].cb \in {"on_start", "on_stop"} =>
                /\ calls[i].profile = current_profile
                /\ calls[i].profile = handled.profile
                /\ calls[i].profile = handled.known

\* Reached: an on_stop call carrying profile 2 in an engine that also
\* supports a smaller profile.
C9_Witness ==
    /\ HandledUp(Modifiers)
    /\ calls = <<Call("on_stop", 2)>>
    /\ 1 \in supported_profiles

\* The case of C10: construction of an engine with supported profiles from
\* an existing file that parses to an unsupported integer.
C10_Case ==
    /\ handled.op = "construct"
    /\ supported_profiles # {}
    /\ handled.file # Absent
    /\ ParseInt(handled.file).ok
    /\ ParseInt(handled.file).value \notin supported_profiles

C11_Case ==
    /\ handled.op = "construct"
    /\ supported_profiles # {}
    /\ handled.file = Absent

\* C11 (absent store) as stated: when the profile file does not exist, the
\* constructed engine's active profile is min(supported_profiles) and
\* construction writes nothing.
C11_DefaultsToMinimum ==
    C11_Case =>
        /\ engine = "ready"
        /\ current_profile = MinProfile(supported_profiles)
        /\ calls = NoCall
        /\ profile_file = Absent

\* C11 (absent store), amended: when the profile file does not exist the
\* loaded value is 1. If 1 is supported the active profile is 1 and
\* construction writes nothing; if not, the active profile is
\* min(supported_profiles) and construction calls _save_profile once, which
\* creates the file with that profile when the write succeeds.
C11_DefaultsToOne ==
    C11_Case =>
        /\ engine = "ready"
        /\ IF 1 \in supported_profiles
           THEN /\ current_profile = 1
                /\ calls = NoCall
                /\ profile_file = Absent
           ELSE /\ current_profile = MinProfile(supported_profiles)
                /\ calls = <<Call("_save_profile", current_profile)>>
                /\ profile_file = IF writable THEN Str(current_profile)
                                  ELSE Absent

\* Reached: a construction without a file that creates the file, for a set
\* that does not hold 1.
C11_Witness ==
    /\ C11_Case
    /\ 1 \notin supported_profiles
    /\ writable
    /\ Str(MinProfile(supported_profiles)) = profile_file

\* The construction just made, of a non-empty set with a profile file whose
\* content is not an integer.
C12_Case ==
    /\ handled.op = "construct"
    /\ supported_profiles # {}
    /\ handled.file # Absent
    /\ ~ParseInt(handled.file).ok

\* C12 (corrupted store is fatal): when the profile file exists and its
\* content does not parse as an integer, construction ends in an error and
\* leaves the file as it was; and after that error no hook is installed, no
\* worker thread exists and nothing runs.
C12_CorruptedStoreIsFatal ==
    /\ C12_Case =>
         /\ engine = "load_error"
         /\ profile_file = handled.file
         /\ calls = NoCall
    /\ engine = "load_error" =>
         /\ os_hooks = 0
         /\ ~hook_active
         /\ ~running
         /\ event_thread = NoThread
         /\ \A w \in WorkerIds : worker[w].pc = "none"

\* Reached: a construction that failed on a file holding "1x".
C12_Witness ==
    /\ C12_Case
    /\ engine = "load_error"
    /\ <<"1", "x">> = profile_file

\* The construction just made, of an empty set.
C13_Case ==
    /\ handled.op = "construct"
    /\ supported_profiles = {}

\* C13 (empty supported set is fatal): construction with an empty
\* supported_profiles ends in the error of the empty set, whatever the
\* profile file holds (a file that cannot be parsed included: the file is
\* not loaded first), leaves the file as it was and calls nothing; and after
\* that error no hook is installed and no worker thread exists.
C13_EmptySetIsFatal ==
    /\ C13_Case =>
         /\ engine = "empty_profiles_error"
         /\ profile_file = handled.file
         /\ calls = NoCall
    /\ engine = "empty_profiles_error" =>
         /\ os_hooks = 0
         /\ ~hook_active
         /\ ~running
         /\ event_thread = NoThread
         /\ \A w \in WorkerIds : worker[w].pc = "none"

\* Reached: a construction with an empty set failed for the empty set while
\* the file held something that is not an integer.
C13_Witness ==
    /\ C13_Case
    /\ engine = "empty_profiles_error"
    /\ <<"x">> = profile_file

\* A selector of a supported profile other than the current one was handled
\* while the combo was active and the profile file cannot be written.
C14_Case ==
    /\ HandledDown(Symbols)
    /\ handled.combo
    /\ key_to_profile[handled.event.name] \in supported_profiles
    /\ key_to_profile[handled.event.name] # handled.profile
    /\ ~writable

\* C14 (best-effort persistence): when the write of a profile switch fails,
\* the active profile is the new one all the same, on_profile_change is
\* invoked once with it after the attempt to save, the file keeps its
\* content, and the worker is back at the head of its loop with its keys and
\* combo as they were.
C14_BestEffortPersistence ==
    C14_Case =>
        LET p == key_to_profile[handled.event.name] IN
        /\ current_profile = p
        /\ calls = <<Call("_save_profile", p), Call("on_profile_change", p)>>
        /\ profile_file = handled.file
        /\ \E w \in WorkerIds :
              /\ worker[w].pc = "loop"
              /\ worker[w].keys = handled.keys
              /\ worker[w].combo

\* Reached: a switch whose write failed, so that the file does not hold the
\* active profile.
C14_Witness ==
    /\ C14_Case
    /\ current_profile = key_to_profile[handled.event.name]
    /\ Str(current_profile) # profile_file

\* The callback invoked for the event just handled raised an exception.
C15_Case == HandledEvent /\ handled.raised

\* C15 (callback failures are contained): when on_start, on_stop or
\* on_profile_change raises, the worker is back at the head of its loop, and
\* its keys, its combo, the shared flag, the active profile and the file are
\* what the event makes them when the callback returns: armed with the new
\* modifier pressed after on_start, idle with the modifier released after
\* on_stop, and switched to the selected profile after on_profile_change.
C15_CallbackFailureContained ==
    C15_Case =>
        LET name == handled.event.name IN
        /\ Cardinality(Callbacks(calls)) = 1
        /\ \E w \in WorkerIds :
            /\ worker[w].pc = "loop"
            /\ Count(calls, "on_start") = 1 =>
                 /\ worker[w].keys = handled.keys \cup {name}
                 /\ worker[w].combo
                 /\ is_combo_active
                 /\ current_profile = handled.profile
                 /\ profile_file = handled.file
            /\ Count(calls, "on_stop") = 1 =>
                 /\ worker[w].keys = handled.keys \ {name}
                 /\ ~worker[w].combo
                 /\ ~is_combo_active
                 /\ current_profile = handled.profile
                 /\ profile_file = handled.file
            /\ Count(calls, "on_profile_change") = 1 =>
                 /\ worker[w].keys = handled.keys
                 /\ worker[w].combo = handled.combo
                 /\ current_profile = key_to_profile[name]
                 /\ profile_file = IF writable THEN Str(current_profile)
                                   ELSE handled.file

\* Reached: on_start raised, and the worker is armed and back in its loop.
C15_Witness ==
    /\ C15_Case
    /\ Count(calls, "on_start") = 1
    /\ \E w \in WorkerIds :
          worker[w].pc = "loop" /\ worker[w].combo /\ worker[w].keys = Modifiers

\* C16 (FIFO processing): no event is handled while an event that was taken
\* from the queue before it, so enqueued before it, is not handled yet.
C16_FifoProcessing == HandledEvent => handled.ticket = 0

\* C17 (bounded channel): the queue never holds more events than the
\* maxsize it was created with.
C17_BoundedChannel == Len(event_queue) <= maxsize

\* The hook call for event e can be made in the present state.
HookCanRun(e) ==
    ENABLED (\E result \in BOOLEAN :
                /\ _on_key_event(e, result)
                /\ observed' = NoObservation)

C19_HookNeverWaits ==
    (engine = "ready" /\ os_hooks > 0) =>
        \A e \in ConcEvents :
            (e.name \in monitored_keys => Len(event_queue) < MaxBacklog)
                => ENABLED (\E result \in BOOLEAN :
                               /\ _on_key_event(e, result)
                               /\ observed' = [name |-> e.name,
                                               type |-> e.type,
                                               suppress |-> result])

\* Reached: a hook call has just returned while one worker is inside a
\* callback and the other has ended.
C19_Witness ==
    /\ observed # NoObservation
    /\ \E w \in WorkerIds : worker[w].pc = "callback"
    /\ \E w \in WorkerIds : worker[w].pc = "none"

\* C20 (hook frame): a hook call changes nothing but the queue, to which it
\* appends at most the one event it was called with, and makes no call; and
\* on_start, on_stop and on_profile_change are only ever called by a step of
\* a worker handling an event.
C20_HookFrame ==
    [][/\ observed' # NoObservation =>
            /\ UNCHANGED <<supported_profiles, profile_file, writable, engine,
                           current_profile, is_combo_active, hook_active,
                           running, os_hooks, event_thread, worker, stopping,
                           last_known>>
            /\ calls' = NoCall
            /\ \/ event_queue' = event_queue
               \/ event_queue' = Append(event_queue,
                                        [name |-> observed'.name,
                                         type |-> observed'.type])
       /\ Callbacks(calls') # {} => handled'.op = "event"]_vars

\* Reached: a hook call has just queued a selector Down while a worker is
\* armed, and returned TRUE.
C20_Witness ==
    /\ observed.suppress
    /\ event_queue # <<>>
    /\ event_queue[Len(event_queue)].name = observed.name
    /\ \E w \in WorkerIds : worker[w].combo

\* C21 (keys of no interest are invisible): a hook call for a key that is
\* neither ctrl nor shift nor the selector symbol of a supported profile
\* leaves the queue as it is and returns FALSE, whatever is_combo_active is.
C21_Interesting(name) ==
    \/ name \in {"ctrl", "shift"}
    \/ name \in Symbols /\ key_to_profile[name] \in supported_profiles

C21_Invisible ==
    [][observed' # NoObservation /\ ~C21_Interesting(observed'.name) =>
           /\ event_queue' = event_queue
           /\ ~observed'.suppress]_vars

\* Reached: while is_combo_active is set the hook has been called for the
\* Down of "#", the symbol of profile 3 which is not supported, with events
\* waiting in the queue.
C21_Witness ==
    /\ observed.name = "#"
    /\ observed.type = KEY_DOWN
    /\ 3 \notin supported_profiles
    /\ supported_profiles # {}
    /\ is_combo_active
    /\ event_queue # <<>>

\* C22 (single recognizer worker): at any moment at most one thread running
\* _process_events is alive.
C22_SingleWorker ==
    Cardinality({w \in WorkerIds : worker[w].pc # "none"}) <= 1

\* The fields of the engine, its threads, its hooks and its store.
EngineState ==
    <<current_profile, is_combo_active, hook_active, running, os_hooks,
      event_queue, event_thread, worker, profile_file>>

\* C23 (stop is idempotent and thread-safe): once a stop() has gone through
\* and no start() followed, the hooks are removed, running is false and the
\* queue is empty, whether one thread called stop() or two at the same time;
\* a stop() on an engine that is stopped or was never started changes
\* nothing, and neither does the end of a stop() which another thread's
\* stop() has overtaken; a stop() can always be called, and a stop() called
\* while another thread is inside stop() raises no exception.
C23_StopIdempotent ==
    engine = "ready" =>
        /\ stopping => handled # StopRaised
        /\ ~hook_active =>
               /\ os_hooks = 0 /\ event_queue = <<>> /\ ~running
               /\ ~stopping =>
                      /\ ENABLED stop_begin
                      /\ ~ENABLED (stop_begin /\ EngineState' # EngineState)
               /\ stopping => ~ENABLED (stop_end /\ EngineState' # EngineState)
               /\ stopping2 =>
                      ~ENABLED (stop2_end /\ EngineState' # EngineState)
        /\ (stopping /\ ~stopping2 /\ hook_active) => ENABLED stop2_begin

\* The state stop() leaves: no hook, hook_active and running false, and an
\* empty queue.
Stopped ==
    os_hooks = 0 /\ ~hook_active /\ ~running /\ event_queue = <<>>

\* C24 (stop never hangs): every stop() that has reached its join returns
\* in the end, also when the worker never leaves its callback, and when it
\* returns the hooks are removed and the queue is empty.
C24_StopReturns ==
    /\ stopping ~> (~stopping /\ Stopped)
    /\ stopping2 ~> (~stopping2 /\ Stopped)

\* Reached: a stop() has returned, the hooks are removed and the queue is
\* empty, while the thread it joined is still inside its callback.
C24_Witness ==
    /\ ~stopping
    /\ ~stopping2
    /\ Stopped
    /\ event_thread # NoThread
    /\ worker[event_thread].pc = "callback"
    /\ worker[event_thread].inside.cb = "on_start"

\* C25 (stop discards pending input), as claimed: an event that was in the
\* queue when stop() was called is never handled.
C25_NeverProcessed == HandledEvent => ~handled.stale

\* C25 (stop discards pending input): when stop() has returned the hooks are
\* removed and the queue is empty, so that none of the events that were in
\* the queue when stop() was called is left for any thread; such an event is
\* handled only while stop() is in its join, by the thread that had passed
\* its test of self.running before stop() cleared it.
C25_StopDiscards ==
    /\ (engine = "ready" /\ ~hook_active) =>
           os_hooks = 0 /\ event_queue = <<>>
    /\ ~stopping => pending = 0
    /\ (HandledEvent /\ handled.stale) =>
           /\ stopping
           /\ ~running
           /\ worker[event_thread].pc = "loop"

\* Reached: stop() is in its join with an event it found in the queue still
\* there, and the thread has ended, so that the event is about to be
\* discarded.
C25_Witness ==
    /\ stopping
    /\ pending > 0
    /\ event_queue # <<>>
    /\ event_thread # NoThread
    /\ worker[event_thread].pc = "none"

\* C26 (no event is lost while running): the queue changes only by a hook
\* call appending its event, by a worker taking the head and handling that
\* very event, or by stop(); and while the engine is running and the queue
\* is not empty a worker handles an event in the end, unless stop() is
\* called first. So every queued event reaches the head and is handled once.
C26_NoEventLost ==
    /\ [][/\ handled'.op = "event" =>
               /\ event_queue # <<>>
               /\ handled'.event = Head(event_queue)
               /\ event_queue' = Tail(event_queue)
          /\ event_queue' # event_queue =>
               \/ handled'.op = "event"
               \/ \E e \in KeyEvents : event_queue' = Append(event_queue, e)
               \/ stopping /\ ~stopping']_vars
    /\ (running /\ event_queue # <<>>) ~> (HandledEvent \/ ~running)

\* Reached: a running worker has handled an event that had another one
\* waiting behind it.
C26_Witness ==
    /\ HandledEvent
    /\ running
    /\ event_queue # <<>>
    /\ handled.event # event_queue[1]

\* C27 (clean combo): when the release of the last of ctrl and shift is
\* handled, the two having been down together and no other key having gone
\* down since the first of them went down, on_hotkey_triggered is called
\* once in that step, whatever was handled before.
C27_CleanComboFires ==
    (ghm.ended /\ ghm.both /\ ~ghm.dirty) => ghm.fired = 1

\* C28 (combo cancellation): on_hotkey_triggered is not called for a hold
\* of ctrl and shift during which another key went down.
C28_CancelledComboSilent ==
    ghm.cancelled => ghm.fired = 0

\* Reached: the release of the last modifier has been handled after a hold
\* of both during which another key went down, and no call was made.
C28_Witness ==
    /\ ghm.ended
    /\ ghm.both
    /\ ghm.cancelled
    /\ ghm.fired = 0
    /\ ghm.combo_start_time = NoTime

\* C29 (flag before callback): as long as a thread is inside on_start,
\* is_combo_active is true, and as long as a thread is inside on_stop it is
\* false.
C29_FlagBeforeCallback ==
    \A w \in WorkerIds :
        /\ worker[w].inside.cb = "on_start" => is_combo_active
        /\ worker[w].inside.cb = "on_stop" => ~is_combo_active

\* C30 (switch ordering): as long as a thread is inside
\* on_profile_change(p), current_profile is p, and the store holds the
\* decimal string of p if it can be written.
C30_SwitchOrdering ==
    \A w \in WorkerIds :
        worker[w].inside.cb = "on_profile_change" =>
            /\ current_profile = worker[w].inside.profile
            /\ writable => Str(worker[w].inside.profile) = profile_file

\* C31 (no duplicate switch notifications): a step that ends the handling
\* of a selector Down whose profile is the current one, the worker's combo
\* being active, and every step that handles a selector Up, calls neither
\* _save_profile nor on_profile_change and leaves the store as it was.
C31_Inert ==
    \/ /\ HandledDown(Symbols)
       /\ handled.combo
       /\ key_to_profile[handled.event.name] = handled.profile
    \/ HandledUp(Symbols)

C31_NoDuplicateSwitch ==
    C31_Inert =>
        /\ Count(calls, "on_profile_change") = 0
        /\ Count(calls, "_save_profile") = 0
        /\ handled.file = profile_file

\* C32 (HoldToRecordHotkeyManager): recording_started is emitted only when
\* the latest signal before it was recording_stopped or there was none, and
\* recording_stopped only when it was recording_started; after every event
\* is_recording equals is_pressed, and they are true exactly when every key
\* of the shortcut is in keys_pressed; and the Down of a key that is in
\* keys_pressed emits nothing.
C32_HoldToRecord ==
    htr.state # "new" =>
        /\ htr.emitted = "recording_started" =>
               htr.prev \in {NoSignal, "recording_stopped"}
        /\ htr.emitted = "recording_stopped" => htr.prev = "recording_started"
        /\ htr.is_recording = htr.is_pressed
        /\ htr.is_pressed <=> htr.keys \subseteq htr.keys_pressed
        /\ htr.repeat => htr.emitted = NoSignal

\* Reached: one key of a three-key shortcut was released and pressed again
\* while the others stayed down, and recording_started was emitted a second
\* time.
C32_Witness ==
    /\ Cardinality(htr.keys) = 3
    /\ htr.emitted = "recording_started"
    /\ htr.prev = "recording_stopped"
    /\ htr.is_recording

\* C33 (hook and recognizer agree on switches): every selector Down whose
\* handling calls on_profile_change was suppressed by the hook call that
\* queued it.
C33_SwitchWasSuppressed ==
    (HandledDown(Symbols) /\ Count(calls, "on_profile_change") > 0) =>
        handled.event.suppress

\* C34 (no swallowed key without effect): every selector Down the hook
\* suppressed is handled by a worker whose combo is active.
C34_SuppressedIsArmed ==
    (HandledDown(Symbols) /\ handled.event.suppress) => handled.combo

\* C35 (armed flag across restart): while the engine is started and its
\* worker thread is alive, also after stop() and start() and before the
\* thread has handled an event, is_combo_active is true exactly when the
\* thread's combo is active.
C35_FlagAcrossRestart ==
    (hook_active /\ ~stopping /\ event_thread # NoThread
        /\ worker[event_thread].pc # "none") =>
        (is_combo_active <=> worker[event_thread].combo)

\* C36 (arm/disarm alternation over the engine's lifetime): is_combo_active
\* is assigned True right before every on_start call and False right before
\* every on_stop call and nowhere else, so it tells which of the two was
\* called last. A step calls on_start only when the last of them was not
\* on_start, on_stop only when it was on_start, and on_profile_change only
\* when it was on_start, across start() and stop().
C36_Alternation ==
    [][/\ Count(calls', "on_start") > 0 => ~is_combo_active
       /\ Count(calls', "on_stop") > 0 => is_combo_active
       /\ Count(calls', "on_profile_change") > 0 => is_combo_active]_vars

\* C37 (quiet after Stop): from the return of stop() until start() is called
\* again, that is while hook_active is false on a constructed engine, no
\* step begins a callback and no step writes the store.
C37_QuietAfterStop ==
    [][(engine = "ready" /\ ~hook_active) =>
          /\ Callbacks(calls') = {}
          /\ Count(calls', "_save_profile") = 0
          /\ profile_file' = profile_file]_vars

\* C38 (store mirrors the active profile): on a constructed engine whose
\* writes succeed, whenever the file exists it holds str(current_profile).
C38_StoreMirrors ==
    (engine = "ready" /\ writable /\ profile_file # Absent) =>
        profile_file = Str(current_profile)

\* The fields of the GlobalHotkeyManager object.
GhmState ==
    <<ghm.hook_active, ghm.running, ghm.event_queue, ghm.ctrl_pressed,
      ghm.shift_pressed, ghm.other_key_pressed, ghm.combo_start_time>>

\* C39 (start is idempotent): a start() on an engine that is started creates
\* no thread, installs no hook and leaves running, hook_active, the queue,
\* the threads' recognizer state, the profile and the store as they are, for
\* ProfileSwitchingHotkey and for GlobalHotkeyManager.
C39_StartIdempotent ==
    [][/\ (hook_active /\ NotedStart) => UNCHANGED EngineState
       /\ (ghm.hook_active /\ GhmStart) => GhmState' = GhmState]_vars

\* Reached: start() was called on a started engine whose worker's combo is
\* active and whose queue holds an event.
C39_Witness ==
    /\ handled = StartedAgain
    /\ event_queue # <<>>
    /\ event_thread # NoThread
    /\ worker[event_thread].combo
    /\ os_hooks = 1

====
